---- MODULE Spec2Model ----
(***************************************************************************)
(* porkbun-ddns.py: one run of main() per process, against a shared        *)
(* config.json, the icanhazip echo service, the Porkbun DNS API and the    *)
(* Healthchecks ping endpoint.                                             *)
(*                                                                         *)
(* Text values (the strings of the JSON document, the HTTP bodies) are     *)
(* sequences of one-character strings, so that rstrip() and the f-string   *)
(* concatenations are computed and not assumed.                            *)
(***************************************************************************)
EXTENDS Integers, Sequences, FiniteSets, TLC

\* ---------------------------------------------------------------- bounds
\* Longest text the address-echo service answers with.
MaxLen == 2
\* Number of runs of the program started in one behaviour.
MaxRuns == 2
\* Longest lastIP config.json holds before the first run.
MaxStored == 0
\* Number of write() calls on config.json that are refused in one behaviour.
MaxRefused == 2
\* Number of write() calls on config.json that take only a part of what they
\* are given in one behaviour.
MaxShort == 1

\* ------------------------------------------------------------- constants
\* "ttl": 600 of the update payload.
TTL == 600
\* response.status_code == 200
HTTP_OK == 200

\* The processes (scheduled invocations) that run the program.
Procs == {"p1", "p2"}

\* Characters of an address and the whitespace rstrip() removes.
Digits == {"4"}
Whitespace == {"\n"}
Chars == Digits \cup Whitespace

\* All texts of at most n characters.
Texts(n) == UNION {[1..k -> Chars] : k \in 0..n}

\* Status codes the DNS provider answers with.
StatusCodes == {200, 400, 503}

\* A value no text and no document equals: a local not yet bound, no exception.
None == <<"None">>

\* ------------------------------------------------------------- the document
\* A dict as json.load() builds it and json.dumps() walks it: the <<key, value>>
\* pairs in insertion order, keys and values being texts.
EmptyDict == <<>>

\* k in config: config[k] is a KeyError otherwise.
HasKey(doc, k) == \E i \in DOMAIN doc : doc[i][1] = k

\* config[k]
Get(doc, k) == doc[CHOOSE i \in DOMAIN doc : doc[i][1] = k][2]

\* config[k] = v: the value is replaced where the key is, a new key goes last.
Put(doc, k, v) ==
    IF HasKey(doc, k)
    THEN [i \in DOMAIN doc |-> IF doc[i][1] = k THEN <<k, v>> ELSE doc[i]]
    ELSE Append(doc, <<k, v>>)

\* The keys main() reads.
K_apikey == <<"a", "p", "i", "k", "e", "y">>
K_secretapikey == <<"s", "e", "c", "r", "e", "t", "a", "p", "i", "k", "e", "y">>
K_domain == <<"d", "o", "m", "a", "i", "n">>
K_lastIP == <<"l", "a", "s", "t", "I", "P">>
K_healthchecksUUID ==
    <<"h", "e", "a", "l", "t", "h", "c", "h", "e", "c", "k", "s", "U", "U", "I", "D">>

\* json.dumps: a character of a string as it is written between the quotes.
EncodeChar(c) ==
    CASE c = "\n" -> <<"\\", "n">>
      [] c = "\t" -> <<"\\", "t">>
      [] c = "\r" -> <<"\\", "r">>
      [] c = "\"" -> <<"\\", "\"">>
      [] c = "\\" -> <<"\\", "\\">>
      [] OTHER -> <<c>>

RECURSIVE EncodeFrom(_, _)
EncodeFrom(s, i) == IF i > Len(s) THEN <<>> ELSE EncodeChar(s[i]) \o EncodeFrom(s, i + 1)

\* json.dumps of a string.
DumpString(s) == <<"\"">> \o EncodeFrom(s, 1) \o <<"\"">>

RECURSIVE DumpMembers(_, _)
DumpMembers(doc, i) ==
    IF i > Len(doc) THEN <<>>
    ELSE (IF i = 1 THEN <<>> ELSE <<",">>) \o <<"\n", " ", " ">>
         \o DumpString(doc[i][1]) \o <<":", " ">> \o DumpString(doc[i][2])
         \o DumpMembers(doc, i + 1)

\* data = json.dumps(config, indent=2)
Dump(doc) ==
    IF doc = EmptyDict THEN <<"{", "}">>
    ELSE <<"{">> \o DumpMembers(doc, 1) \o <<"\n", "}">>

\* Whitespace between the tokens of a JSON text.
JSONWhitespace == {" ", "\n", "\t", "\r"}

RECURSIVE SkipWS(_, _)
SkipWS(t, i) == IF i <= Len(t) /\ t[i] \in JSONWhitespace THEN SkipWS(t, i + 1) ELSE i

\* What the scanners return: kind "ok" with the value and the index after it,
\* "error" for a JSONDecodeError, "unsupported" for JSON this model does not
\* decode (values that are not strings, \u \b \f escapes).
Scanned(kind, val, next) == [kind |-> kind, val |-> val, next |-> next]

Unescape(e) ==
    CASE e = "n" -> "\n"
      [] e = "t" -> "\t"
      [] e = "r" -> "\r"
      [] OTHER -> e

\* The character of a place in the file that was never written (the file was
\* emptied under a writer, who went on writing further on).
NUL == "NUL"

\* Characters json.load() does not accept inside a string.
ControlChars == {"\n", "\t", "\r", NUL}

\* A string from the character after its opening quote.
RECURSIVE ScanString(_, _, _)
ScanString(t, i, acc) ==
    IF i > Len(t) THEN Scanned("error", <<>>, i)
    ELSE IF t[i] = "\"" THEN Scanned("ok", acc, i + 1)
    ELSE IF t[i] = "\\" THEN
        IF i + 1 > Len(t) THEN Scanned("error", <<>>, i)
        ELSE IF t[i + 1] \in {"n", "t", "r", "\"", "\\", "/"}
             THEN ScanString(t, i + 2, Append(acc, Unescape(t[i + 1])))
        ELSE IF t[i + 1] \in {"u", "b", "f"} THEN Scanned("unsupported", <<>>, i)
        ELSE Scanned("error", <<>>, i)
    ELSE IF t[i] \in ControlChars THEN Scanned("error", <<>>, i)
    ELSE ScanString(t, i + 1, Append(acc, t[i]))

\* First characters of a JSON value that is not a string.
OtherValueStart == {"4", "-", "[", "{", "t", "f", "n", "N", "I"}

\* The members of an object from the opening quote of a key, to the end of the text.
RECURSIVE ScanMembers(_, _, _)
ScanMembers(t, i, doc) ==
    IF i > Len(t) \/ t[i] # "\"" THEN Scanned("error", <<>>, i)
    ELSE LET k == ScanString(t, i + 1, <<>>)
         IN IF k.kind # "ok" THEN k
            ELSE LET c == SkipWS(t, k.next)
                     v0 == SkipWS(t, c + 1)
                 IN IF c > Len(t) \/ t[c] # ":" \/ v0 > Len(t) THEN Scanned("error", <<>>, c)
                    ELSE IF t[v0] # "\""
                    THEN Scanned(IF t[v0] \in OtherValueStart THEN "unsupported" ELSE "error",
                                 <<>>, v0)
                    ELSE LET v == ScanString(t, v0 + 1, <<>>)
                         IN IF v.kind # "ok" THEN v
                            ELSE LET e == SkipWS(t, v.next)
                                     d == Put(doc, k.val, v.val)
                                 IN IF e > Len(t) THEN Scanned("error", <<>>, e)
                                    ELSE IF t[e] = "," THEN ScanMembers(t, SkipWS(t, e + 1), d)
                                    ELSE IF t[e] = "}" /\ SkipWS(t, e + 1) > Len(t)
                                    THEN Scanned("ok", d, e + 1)
                                    ELSE Scanned("error", <<>>, e)

\* json.load(file): the dict of a text that is an object of strings.
Parse(t) ==
    LET i == SkipWS(t, 1)
        j == SkipWS(t, i + 1)
    IN IF i > Len(t) \/ t[i] # "{" THEN
           Scanned(IF i <= Len(t) /\ t[i] \in OtherValueStart \cup {"\""}
                   THEN "unsupported" ELSE "error", <<>>, i)
       ELSE IF j <= Len(t) /\ t[j] = "}"
       THEN IF SkipWS(t, j + 1) > Len(t) THEN Scanned("ok", EmptyDict, j + 1)
            ELSE Scanned("error", <<>>, j)
       ELSE ScanMembers(t, j, EmptyDict)

\* Variant: a write that leaves a file another writer already filled.
OverlayKeepOld(old, off, data) == IF old = <<>> /\ off = 0 THEN data ELSE old

\* One write() call at offset `off` of a file that holds `old`: the characters
\* of data replace those under them, what `old` holds beyond them stays, and the
\* places between the end of `old` and the offset were never written.
Overlay(old, off, data) ==
    LET head == IF off <= Len(old) THEN SubSeq(old, 1, off)
                ELSE old \o [i \in 1..(off - Len(old)) |-> NUL]
    IN head \o data \o SubSeq(old, off + Len(data) + 1, Len(old))

\* config.json right after open(CONFIG_FILE, "w"), or missing: no content.
Empty == <<>>

\* The numbers of characters a write() call given `rest` takes when it does not
\* take them all.
WriteCuts(rest) == 1 .. (Len(rest) - 1)

\* json.load() returns a dict for the text.
Readable(t) == Parse(t).kind = "ok"

\* No dict: the value of config before read_config() returned.
NoDict == << <<None, None>> >>

\* str.rstrip() with no argument: trailing whitespace removed.
RECURSIVE rstrip(_)
rstrip(s) ==
    IF s = <<>> THEN s
    ELSE IF s[Len(s)] \in Whitespace THEN rstrip(SubSeq(s, 1, Len(s) - 1))
    ELSE s

\* f"Updating 'A' record for {domain} with {current_ip}"
UpdateBody(d, ip) == <<"Updating 'A' record for ">> \o d \o <<" with ">> \o ip

\* body = "No change"
NoChangeBody == <<"No change">>

\* Variant: the payload carries the address of the document, not the resolved one.
PayloadOld(cfg, ip) ==
    [apikey |-> Get(cfg, K_apikey), secretapikey |-> Get(cfg, K_secretapikey),
     content |-> Get(cfg, K_lastIP), ttl |-> TTL]

\* The payload of the update request.
Payload(cfg, ip) ==
    [apikey |-> Get(cfg, K_apikey), secretapikey |-> Get(cfg, K_secretapikey),
     content |-> ip, ttl |-> TTL]

\* response.status_code == 200
EditSucceeded(code) == code = HTTP_OK

\* Variant: the update is made whether or not the address changed.
IpChangedAlways(cur, last) == TRUE

\* if current_ip != last_ip:
IpChanged(cur, last) == cur # last

\* Variant: the result of edit_record() is ignored.
UpdateFailedNever(result) == FALSE

\* if not edit_record(domain, data):
UpdateFailed(result) == ~result

\* Variant: the document is saved without the new address.
WithLastIPStale(cfg, cur) == cfg

\* config["lastIP"] = current_ip
WithLastIP(cfg, cur) == Put(cfg, K_lastIP, cur)

\* Variant: the ping is sent whatever the identifier.
TruthyAlways(u) == TRUE

\* if uuid:
Truthy(u) == u # <<>>

\* The lastIP a run would load from the text, None when there is none to load.
PersistedLastIP(t) ==
    LET r == Parse(t)
    IN IF r.kind = "ok" /\ HasKey(r.val, K_lastIP) THEN Get(r.val, K_lastIP) ELSE None

VARIABLES
    file,        \* content of config.json: its characters
    lastAccepted,\* content of the latest edit_record() call that returned True, None if none
    pc,          \* pc[p]: where process p is in main()
    config,      \* config[p]: the dict read_config() returned
    uuid,        \* uuid[p], domain[p], last_ip[p], current_ip[p], body[p], data[p]: locals of main()
    domain,
    last_ip,
    current_ip,
    body,
    data,
    retval,      \* retval[p]: <<r>> once main() returned r, <<>> before
    raised,      \* raised[p]: the exception that left main(), None if none
    status,      \* status[p]: <<s>> once the process exited with status s, <<>> while it runs
    trace,       \* trace[p]: the external operations the run invoked, in order
    pings,       \* pings[p]: the <<uuid, body>> posted to Healthchecks by the run
    fileAtStart, \* fileAtStart[p]: content of config.json when the run started
    editResult,  \* editResult[p]: the values edit_record() returned in the run, in order
    saved,       \* saved[p]: save_config() returned in the run
    baseline,    \* the lastIP of config.json before the first run
    saveFailed,  \* the latest save_config() call raised
    savePieces,  \* the latest save_config() call that returned made more than one write() call
    lastWritten, \* the dict the latest save_config() that returned wrote, NoDict if none
    runs,        \* number of runs started so far
    refused,     \* number of write() calls on config.json refused so far
    shorts,      \* number of write() calls on config.json that took a part so far
    sent,        \* sent[p]: characters of its text the save_config() call has written
    failed,      \* failed[p]: a write() of the save_config() call was refused, close() flushes again
    got,         \* got[p]: what the read() calls of json.load() returned so far
    want         \* want[p]: size of the buffer the read() calls fill, 0 when a whole block

locals == <<config, uuid, domain, last_ip, current_ip, body, data>>
outcome == <<retval, raised, status>>
history == <<trace, pings, fileAtStart, editResult, saved>>
world == <<file, lastAccepted, baseline, saveFailed, savePieces, lastWritten>>
reading == <<got, want>>
writing == <<sent, failed>>
faults == <<refused, shorts>>
vars == <<world, pc, locals, outcome, history, runs, faults, reading, writing>>

\* ------------------------------------------------------------- initial state
\* The values a lastIP written by an earlier run, or a first-run baseline, has.
StoredIPs == {rstrip(t) : t \in Texts(MaxStored)}

\* The pairs of s that are not of key k.
Without(doc, k) == SelectSeq(doc, LAMBDA kv : kv[1] # k)

\* Documents with every key, or with one key left out.
Documents ==
    {Without(<< <<K_apikey, <<"k">> >>, <<K_secretapikey, <<"s">> >>,
                <<K_domain, <<"d">> >>, <<K_lastIP, ip>>,
                <<K_healthchecksUUID, u>> >>, missing) :
        missing \in {<<>>, K_apikey, K_secretapikey, K_domain, K_lastIP, K_healthchecksUUID},
        ip \in StoredIPs, u \in {<<>>, <<"u">>}}

Init ==
    /\ file \in {Dump(d) : d \in Documents} \cup {Empty}
    /\ lastAccepted = None
    /\ baseline = PersistedLastIP(file)
    /\ saveFailed = FALSE
    /\ savePieces = FALSE
    /\ lastWritten = NoDict
    /\ pc = [p \in Procs |-> "idle"]
    /\ config = [p \in Procs |-> NoDict]
    /\ uuid = [p \in Procs |-> None]
    /\ domain = [p \in Procs |-> None]
    /\ last_ip = [p \in Procs |-> None]
    /\ current_ip = [p \in Procs |-> None]
    /\ body = [p \in Procs |-> None]
    /\ data = [p \in Procs |-> None]
    /\ retval = [p \in Procs |-> <<>>]
    /\ raised = [p \in Procs |-> None]
    /\ status = [p \in Procs |-> <<>>]
    /\ trace = [p \in Procs |-> <<>>]
    /\ pings = [p \in Procs |-> <<>>]
    /\ fileAtStart = [p \in Procs |-> None]
    /\ editResult = [p \in Procs |-> <<>>]
    /\ saved = [p \in Procs |-> FALSE]
    /\ runs = 0
    /\ refused = 0
    /\ shorts = 0
    /\ sent = [p \in Procs |-> 0]
    /\ failed = [p \in Procs |-> FALSE]
    /\ got = [p \in Procs |-> <<>>]
    /\ want = [p \in Procs |-> 0]

\* ------------------------------------------------------------- steps of main()
\* Variant: the exception is caught and the run goes on to the reporting step.
RaiseSwallowed(p, exc) ==
    /\ pc' = [pc EXCEPT ![p] = "report"]
    /\ raised' = [raised EXCEPT ![p] = exc]
    /\ UNCHANGED <<retval, status>>

\* Variant: the exception is caught and the failed operation is tried again.
RaiseRetry(p, exc) ==
    /\ pc' = pc
    /\ raised' = [raised EXCEPT ![p] = exc]
    /\ UNCHANGED <<retval, status>>

\* An exception leaves main(): nothing catches it.
Raise(p, exc) ==
    /\ pc' = [pc EXCEPT ![p] = "raised"]
    /\ raised' = [raised EXCEPT ![p] = exc]
    /\ UNCHANGED <<retval, status>>

Goto(p, label) ==
    /\ pc' = [pc EXCEPT ![p] = label]
    /\ UNCHANGED outcome

Invoke(p, op) == trace' = [trace EXCEPT ![p] = Append(@, op)]

\* The locals of main() and the record of the run, before a run and after the
\* process is gone.
Fresh(p) ==
    /\ config' = [config EXCEPT ![p] = NoDict]
    /\ uuid' = [uuid EXCEPT ![p] = None]
    /\ domain' = [domain EXCEPT ![p] = None]
    /\ last_ip' = [last_ip EXCEPT ![p] = None]
    /\ current_ip' = [current_ip EXCEPT ![p] = None]
    /\ body' = [body EXCEPT ![p] = None]
    /\ data' = [data EXCEPT ![p] = None]
    /\ raised' = [raised EXCEPT ![p] = None]
    /\ trace' = [trace EXCEPT ![p] = <<>>]
    /\ pings' = [pings EXCEPT ![p] = <<>>]
    /\ editResult' = [editResult EXCEPT ![p] = <<>>]
    /\ saved' = [saved EXCEPT ![p] = FALSE]

\* A process is started: main() is entered.
Begin(p) ==
    /\ runs < MaxRuns
    /\ runs' = runs + 1
    /\ pc' = [pc EXCEPT ![p] = "logger"]
    /\ Fresh(p)
    /\ retval' = [retval EXCEPT ![p] = <<>>]
    /\ status' = [status EXCEPT ![p] = <<>>]
    /\ fileAtStart' = [fileAtStart EXCEPT ![p] = file]
    /\ UNCHANGED <<world, faults, reading, writing>>

\* Runs one at a time: a process starts when no other is running.
Start(p) ==
    /\ \A q \in Procs : pc[q] \in {"idle", "exited"}
    /\ Begin(p)

\* Two runs that may overlap: each process is one run of the program, started
\* whatever the other does.
StartOverlapping(p) ==
    /\ pc[p] = "idle"
    /\ Begin(p)

\* logger = create_logger(__name__, "porkbun_ddns.log"): the log file is opened
\* for writing, or cannot be and the exception leaves main().
CreateLogger(p) ==
    /\ pc[p] = "logger"
    /\ \/ Goto(p, "read")
       \/ Raise(p, <<"create_logger">>)
    /\ UNCHANGED <<world, locals, history, runs, faults, reading, writing>>

\* read_config(): open(CONFIG_FILE, "r"). The file is opened, or it cannot be
\* (it is missing, the open is refused) and the exception leaves main().
ReadOpen(p) ==
    /\ pc[p] = "read"
    /\ Invoke(p, "read_config")
    /\ \/ Goto(p, "stat")
       \/ Raise(p, <<"read_config">>)
    /\ UNCHANGED <<world, locals, pings, fileAtStart, editResult, saved, runs,
                   faults, reading, writing>>

\* json.load(file) reads the whole file: the size of the file is taken and the
\* buffer is made one character longer; for a file with no content it is a whole
\* block, which is more than config.json holds.
ReadStat(p) ==
    /\ pc[p] = "stat"
    /\ want' = [want EXCEPT ![p] = IF Len(file) > 0 THEN Len(file) + 1 ELSE 0]
    /\ got' = [got EXCEPT ![p] = <<>>]
    /\ Goto(p, "load")
    /\ UNCHANGED <<world, locals, history, runs, faults, writing>>

\* One read() call: the characters of the file after those already read, as
\* many as the buffer has room for; all of them once the buffer was filled and
\* is grown by a whole block.
Chunk(f, sofar, size) ==
    LET rest == SubSeq(f, Len(sofar) + 1, Len(f))
    IN IF Len(sofar) < size /\ Len(rest) > size - Len(sofar)
       THEN SubSeq(rest, 1, size - Len(sofar))
       ELSE rest

\* A read() call that returns characters: they are kept and the next call is
\* made; or the call fails and the exception leaves main().
ReadChunk(p) ==
    /\ pc[p] = "load"
    /\ \/ /\ Chunk(file, got[p], want[p]) # <<>>
          /\ got' = [got EXCEPT ![p] = @ \o Chunk(file, got[p], want[p])]
          /\ Goto(p, "load")
          /\ UNCHANGED want
       \/ /\ Raise(p, <<"read_config">>)
          /\ got' = [got EXCEPT ![p] = <<>>]
          /\ want' = [want EXCEPT ![p] = 0]
    /\ UNCHANGED <<world, locals, history, runs, faults, writing>>

\* The read() call that returns nothing ends the reading: the text read is
\* decoded; config = read_config(); uuid, domain, last_ip = config[...]
ReadConfig(p) ==
    /\ pc[p] = "load"
    /\ Chunk(file, got[p], want[p]) = <<>>
    /\ got' = [got EXCEPT ![p] = <<>>]
    /\ want' = [want EXCEPT ![p] = 0]
    /\ LET r == Parse(got[p])
       IN IF r.kind # "ok"
          THEN /\ Raise(p, <<"read_config">>)
               /\ UNCHANGED locals
          ELSE /\ config' = [config EXCEPT ![p] = r.val]
               /\ IF ~HasKey(r.val, K_healthchecksUUID)
                  THEN /\ Raise(p, <<"KeyError", "healthchecksUUID">>)
                       /\ UNCHANGED <<uuid, domain, last_ip>>
                  ELSE /\ uuid' = [uuid EXCEPT ![p] = Get(r.val, K_healthchecksUUID)]
                       /\ IF ~HasKey(r.val, K_domain)
                          THEN /\ Raise(p, <<"KeyError", "domain">>)
                               /\ UNCHANGED <<domain, last_ip>>
                          ELSE /\ domain' = [domain EXCEPT ![p] = Get(r.val, K_domain)]
                               /\ IF ~HasKey(r.val, K_lastIP)
                                  THEN /\ Raise(p, <<"KeyError", "lastIP">>)
                                       /\ UNCHANGED last_ip
                                  ELSE /\ last_ip' = [last_ip EXCEPT ![p] = Get(r.val, K_lastIP)]
                                       /\ Goto(p, "get_ip")
               /\ UNCHANGED <<current_ip, body, data>>
    /\ UNCHANGED <<world, history, runs, faults, writing>>

\* current_ip = get_ip(): the body of the answer, right-stripped; or the request fails.
GetIp(p) ==
    /\ pc[p] = "get_ip"
    /\ Invoke(p, "get_ip")
    /\ \/ \E text \in Texts(MaxLen) :
            /\ current_ip' = [current_ip EXCEPT ![p] = rstrip(text)]
            /\ Goto(p, "compare")
       \/ /\ Raise(p, <<"get_ip">>)
          /\ UNCHANGED current_ip
    /\ UNCHANGED <<world, config, uuid, domain, last_ip, body, data,
                   pings, fileAtStart, editResult, saved, runs, faults, reading, writing>>

\* if current_ip != last_ip: data = {...}; body = f"Updating ..." else: body = "No change"
Compare(p) ==
    /\ pc[p] = "compare"
    /\ IF IpChanged(current_ip[p], last_ip[p])
       THEN IF ~HasKey(config[p], K_apikey)
            THEN /\ Raise(p, <<"KeyError", "apikey">>)
                 /\ UNCHANGED <<body, data>>
            ELSE IF ~HasKey(config[p], K_secretapikey)
            THEN /\ Raise(p, <<"KeyError", "secretapikey">>)
                 /\ UNCHANGED <<body, data>>
            ELSE /\ data' = [data EXCEPT ![p] = Payload(config[p], current_ip[p])]
                 /\ body' = [body EXCEPT ![p] = UpdateBody(domain[p], current_ip[p])]
                 /\ Goto(p, "edit")
       ELSE /\ body' = [body EXCEPT ![p] = NoChangeBody]
            /\ UNCHANGED data
            /\ Goto(p, "report")
    /\ UNCHANGED <<world, config, uuid, domain, last_ip, current_ip, history, runs,
                   faults, reading, writing>>

\* edit_record(domain, data): one POST; True exactly for status 200. A request
\* that cannot be completed raises out of main().
EditRecord(p) ==
    /\ pc[p] = "edit"
    /\ Invoke(p, "edit_record")
    /\ \/ \E code \in StatusCodes :
            /\ editResult' = [editResult EXCEPT ![p] = Append(@, EditSucceeded(code))]
            /\ lastAccepted' = IF EditSucceeded(code) THEN data[p].content ELSE lastAccepted
            /\ IF UpdateFailed(EditSucceeded(code))
               THEN \* logger.error("Error updating record"); return 1
                    /\ pc' = [pc EXCEPT ![p] = "returned"]
                    /\ retval' = [retval EXCEPT ![p] = <<1>>]
                    /\ UNCHANGED <<raised, status>>
               ELSE Goto(p, "save")
       \/ /\ Raise(p, <<"edit_record">>)
          /\ UNCHANGED <<editResult, lastAccepted>>
    /\ UNCHANGED <<file, baseline, saveFailed, savePieces, lastWritten, locals,
                   pings, fileAtStart, saved, runs, faults, reading, writing>>

\* config["lastIP"] = current_ip; save_config(config): the text is made and
\* open(CONFIG_FILE, "w") empties the file, or is refused and the exception
\* leaves main().
SaveOpen(p) ==
    /\ pc[p] = "save"
    /\ Invoke(p, "save_config")
    /\ config' = [config EXCEPT ![p] = WithLastIP(@, current_ip[p])]
    /\ \/ /\ file' = Empty
          /\ Goto(p, "write")
          /\ UNCHANGED saveFailed
       \/ /\ Raise(p, <<"save_config", "open">>)
          /\ saveFailed' = TRUE
          /\ UNCHANGED file
    /\ UNCHANGED <<lastAccepted, baseline, savePieces, lastWritten, uuid, domain, last_ip,
                   current_ip, body, data, pings, fileAtStart, editResult, saved, runs,
                   faults, reading, writing>>

\* The save_config() call is over: what it has written so far is forgotten.
WriteOver(p) ==
    /\ sent' = [sent EXCEPT ![p] = 0]
    /\ failed' = [failed EXCEPT ![p] = FALSE]

\* file.write(data) and the close of the with block, one write() call of it. The
\* text goes out when the file is closed: write() is called with what is left of
\* it, at the place the calls before got to, until nothing is left. A call takes
\* all it is given, or a part, or is refused. When a call is refused, close()
\* tries once more to write what is left and the exception leaves main() when
\* that is done, or when a call is refused again.
SaveWrite(p) ==
    /\ pc[p] = "write"
    /\ LET text == Dump(config[p])
           rest == SubSeq(text, sent[p] + 1, Len(text))
       IN \/ /\ file' = Overlay(file, sent[p], rest)
             /\ IF failed[p]
                THEN /\ Raise(p, <<"save_config", "write">>)
                     /\ saveFailed' = TRUE
                     /\ UNCHANGED <<savePieces, lastWritten, saved>>
                ELSE /\ Goto(p, "report")
                     /\ saveFailed' = FALSE
                     /\ savePieces' = (sent[p] > 0)
                     /\ lastWritten' = config[p]
                     /\ saved' = [saved EXCEPT ![p] = TRUE]
             /\ WriteOver(p)
             /\ UNCHANGED faults
          \/ \E n \in WriteCuts(rest) :
             /\ shorts < MaxShort
             /\ shorts' = shorts + 1
             /\ file' = Overlay(file, sent[p], SubSeq(rest, 1, n))
             /\ sent' = [sent EXCEPT ![p] = @ + n]
             /\ UNCHANGED <<pc, outcome, saveFailed, savePieces, lastWritten, saved,
                            refused, failed>>
          \/ /\ refused < MaxRefused
             /\ refused' = refused + 1
             /\ IF failed[p]
                THEN /\ Raise(p, <<"save_config", "write">>)
                     /\ saveFailed' = TRUE
                     /\ WriteOver(p)
                ELSE /\ failed' = [failed EXCEPT ![p] = TRUE]
                     /\ UNCHANGED <<pc, outcome, saveFailed, sent>>
             /\ UNCHANGED <<file, savePieces, lastWritten, saved, shorts>>
    /\ UNCHANGED <<lastAccepted, baseline, locals, trace, pings, fileAtStart,
                   editResult, runs, reading>>

\* if uuid: ping_healthchecks(uuid, body)
Report(p) ==
    /\ pc[p] = "report"
    /\ IF Truthy(uuid[p])
       THEN /\ Invoke(p, "ping_healthchecks")
            /\ pings' = [pings EXCEPT ![p] = Append(@, <<uuid[p], body[p]>>)]
            /\ \/ Goto(p, "finish")
               \/ Raise(p, <<"ping_healthchecks">>)
       ELSE /\ Goto(p, "finish")
            /\ UNCHANGED <<trace, pings>>
    /\ UNCHANGED <<world, locals, fileAtStart, editResult, saved, runs, faults, reading, writing>>

\* logger.info("Finished"); return 0
Finish(p) ==
    /\ pc[p] = "finish"
    /\ pc' = [pc EXCEPT ![p] = "returned"]
    /\ retval' = [retval EXCEPT ![p] = <<0>>]
    /\ UNCHANGED <<world, locals, raised, status, history, runs, faults, reading, writing>>

\* if __name__ == "__main__": main()  -- the value main() returns is dropped; the
\* interpreter exits with 0 at the end of the script and with 1 on an exception
\* nothing caught.
ExitStatus(p) == IF raised[p] # None THEN 1 ELSE 0

Exit(p) ==
    /\ pc[p] \in {"returned", "raised"}
    /\ pc' = [pc EXCEPT ![p] = "exited"]
    /\ status' = [status EXCEPT ![p] = <<ExitStatus(p)>>]
    /\ Fresh(p)
    /\ fileAtStart' = [fileAtStart EXCEPT ![p] = None]
    /\ UNCHANGED <<world, retval, runs, faults, reading, writing>>

Step(p) ==
    \/ CreateLogger(p)
    \/ ReadOpen(p)
    \/ ReadStat(p)
    \/ ReadChunk(p)
    \/ ReadConfig(p)
    \/ GetIp(p)
    \/ Compare(p)
    \/ EditRecord(p)
    \/ SaveOpen(p)
    \/ SaveWrite(p)
    \/ Report(p)
    \/ Finish(p)
    \/ Exit(p)

\* Scheduled runs that never overlap (the intended deployment).
Next == \E p \in Procs : Start(p) \/ Step(p)
Spec == Init /\ [][Next]_vars

\* Runs that may overlap on the same config.json.
NextOverlapping == \E p \in Procs : StartOverlapping(p) \/ Step(p)

SpecOverlapping == Init /\ [][NextOverlapping]_vars

\* ------------------------------------------------------------- properties
\* main() has been left, by return or by an exception, and the process is not gone yet.
Ended(p) == pc[p] \in {"returned", "raised"}

\* The run invoked the operation.
Invoked(p, op) == \E i \in DOMAIN trace[p] : trace[p][i] = op

\* The healthchecksUUID of the document the run found is there and not empty.
ConfigAtStart(p) == Parse(fileAtStart[p])

UUIDConfigured(p) ==
    /\ ConfigAtStart(p).kind = "ok"
    /\ HasKey(ConfigAtStart(p).val, K_healthchecksUUID)
    /\ Get(ConfigAtStart(p).val, K_healthchecksUUID) # <<>>

\* The address the run resolved is the lastIP it loaded.
SameIP(p) == current_ip[p] # None /\ current_ip[p] = last_ip[p]

\* C1: in a run where the address get_ip() returned equals the lastIP loaded,
\* edit_record() and save_config() are never invoked and config.json is as it
\* was when the run started.
C1_NoOpPath ==
    \A p \in Procs :
        SameIP(p) =>
            /\ ~Invoked(p, "edit_record")
            /\ ~Invoked(p, "save_config")
            /\ file = fileAtStart[p]

C1_Witness ==
    \E p \in Procs :
        /\ pc[p] = "returned"
        /\ retval[p] = <<0>>
        /\ SameIP(p)
        /\ last_ip[p] = <<"4">>
        /\ file = fileAtStart[p]

WroteAll(p) == file = Dump(config[p])

BranchBody(p) ==
    IF current_ip[p] = last_ip[p] THEN NoChangeBody
    ELSE UpdateBody(Get(ConfigAtStart(p).val, K_domain), current_ip[p])

\* Nothing ended the run before its reporting step: no exception of an earlier
\* operation, and no edit_record() that returned False.
ReachedReport(p) ==
    /\ raised[p] \in {None, <<"ping_healthchecks">>}
    /\ editResult[p] # <<FALSE>>

\* C3 (as stated): in every run ping_healthchecks() is invoked exactly once if
\* the configured healthchecksUUID is not empty and not at all otherwise, with the
\* message of the branch taken. Stated here of the runs main() returns from, which
\* the runs of the claim include.
C3_Original ==
    \A p \in Procs :
        (pc[p] = "returned") =>
            /\ (Len(pings[p]) = 1) <=> UUIDConfigured(p)
            /\ Len(pings[p]) <= 1
            /\ (pings[p] # <<>>) =>
                   (pings[p][1] = <<Get(ConfigAtStart(p).val, K_healthchecksUUID),
                                    BranchBody(p)>>)

\* C3 (amended): in every run that no exception and no failed update ended before
\* the reporting step, ping_healthchecks() is invoked exactly once if the
\* configured healthchecksUUID is not empty and not at all otherwise, with the
\* message of the branch taken; in a run ended earlier it is not invoked.
C3_Amended ==
    \A p \in Procs :
        Ended(p) =>
            /\ (Len(pings[p]) = 1) <=> (UUIDConfigured(p) /\ ReachedReport(p))
            /\ Len(pings[p]) <= 1
            /\ (pings[p] # <<>>) =>
                   (pings[p][1] = <<Get(ConfigAtStart(p).val, K_healthchecksUUID),
                                    BranchBody(p)>>)

C3_Witness ==
    \E p \in Procs :
        /\ pc[p] = "returned"
        /\ retval[p] = <<0>>
        /\ editResult[p] = <<TRUE>>
        /\ pings[p] = <<  <<  <<"u">>, UpdateBody(<<"d">>, <<"4">>)  >>  >>

\* C4: in a run where the address changed and edit_record() returned False,
\* ping_healthchecks() and save_config() are not invoked, whatever the
\* healthchecksUUID.
C4_FailureShortCircuit ==
    \A p \in Procs :
        (editResult[p] = <<FALSE>>) =>
            /\ ~Invoked(p, "ping_healthchecks")
            /\ pings[p] = <<>>
            /\ ~Invoked(p, "save_config")
            /\ pc[p] = "returned"
            /\ retval[p] = <<1>>

C4_Witness ==
    \E p \in Procs :
        /\ editResult[p] = <<FALSE>>
        /\ pc[p] = "returned"
        /\ UUIDConfigured(p)
        /\ IpChanged(current_ip[p], last_ip[p])

\* C5: the exit status of the process is 0 when main() returned 0 (an update made
\* and saved, or no change) and 1 when main() returned 1 (edit_record() returned
\* False).
C5_ExitStatus ==
    \A p \in Procs :
        (pc[p] = "exited") =>
            /\ (retval[p] = <<0>>) => (status[p] = <<0>>)
            /\ (retval[p] = <<1>>) => (status[p] = <<1>>)

\* C6: when the request of edit_record() cannot be completed, the exception
\* leaves main() with save_config() and ping_healthchecks() never invoked and
\* config.json as it was.
C6_EditRaises ==
    \A p \in Procs :
        (raised[p] = <<"edit_record">>) =>
            /\ pc[p] = "raised"
            /\ retval[p] = <<>>
            /\ ~Invoked(p, "save_config")
            /\ ~Invoked(p, "ping_healthchecks")
            /\ pings[p] = <<>>
            /\ file = fileAtStart[p]

C6_Witness ==
    \E p \in Procs :
        /\ raised[p] = <<"edit_record">>
        /\ pc[p] = "raised"
        /\ UUIDConfigured(p)
        /\ trace[p] = <<"read_config", "get_ip", "edit_record">>

\* C7: with a document whose healthchecksUUID is empty or absent the run never
\* invokes ping_healthchecks() and does not fail because of the identifier.
C7_UUIDOptional ==
    \A p \in Procs :
        (Ended(p) /\ Readable(fileAtStart[p]) /\ ~UUIDConfigured(p)) =>
            /\ pings[p] = <<>>
            /\ raised[p] # <<"KeyError", "healthchecksUUID">>

\* The process is not made to wait where a lock would make it wait: when it is
\* about to start, to open config.json for reading, to call edit_record(), or
\* to open config.json for writing.
NeverWaits(p) ==
    /\ (pc[p] = "idle") => ENABLED StartOverlapping(p)
    /\ (pc[p] = "read") => ENABLED ReadOpen(p)
    /\ (pc[p] = "edit") => ENABLED EditRecord(p)
    /\ (pc[p] = "save") => ENABLED SaveOpen(p)

\* The latest save_config() call returned, it wrote its text in one write()
\* call, and no other call is part of the way through its text: lastWritten is
\* the document it wrote.
LastSaveReturned ==
    /\ lastWritten # NoDict
    /\ ~saveFailed
    /\ ~savePieces
    /\ \A q \in Procs : sent[q] = 0

\* The first characters of config.json are the given text.
BeginsWith(text) ==
    /\ Len(file) >= Len(text)
    /\ SubSeq(file, 1, Len(text)) = text

Rank(op) ==
    CASE op = "read_config" -> 1
      [] op = "get_ip" -> 2
      [] op = "edit_record" -> 3
      [] op = "save_config" -> 4
      [] op = "ping_healthchecks" -> 5

\* The exception is the failure of one of the five operations (a KeyError is
\* raised by main() itself, the logger is set up before them); the operation is
\* the first part of its name.
RaisedByOperation(exc) == exc[1] \notin {"KeyError", "create_logger"}

\* C9: the operations of a run are invoked in the order read_config, get_ip,
\* edit_record, save_config, ping_healthchecks, each at most once; edit_record
\* only when the address changed, save_config only right after edit_record,
\* ping_healthchecks only with a non-empty identifier; and an operation that
\* failed is the last one of the run.
C9_Order ==
    \A p \in Procs :
        /\ \A i, j \in DOMAIN trace[p] : (i < j) => (Rank(trace[p][i]) < Rank(trace[p][j]))
        /\ (trace[p] # <<>>) => (trace[p][1] = "read_config")
        /\ (Len(trace[p]) >= 2) => (trace[p][2] = "get_ip")
        /\ Invoked(p, "edit_record") => (current_ip[p] # last_ip[p])
        /\ \A i \in DOMAIN trace[p] :
               (trace[p][i] = "save_config") => (i > 1 /\ trace[p][i - 1] = "edit_record")
        /\ Invoked(p, "ping_healthchecks") => (uuid[p] # <<>>)
        /\ (raised[p] # None) =>
               /\ pc[p] = "raised"
               /\ RaisedByOperation(raised[p]) =>
                      (raised[p][1] = trace[p][Len(trace[p])])

C9_Witness ==
    \E p \in Procs :
        /\ pc[p] = "returned"
        /\ trace[p] = <<"read_config", "get_ip", "edit_record", "save_config",
                        "ping_healthchecks">>

\* No run is in progress.
BetweenRuns == \A p \in Procs : pc[p] \in {"idle", "exited"}

\* C10: over runs that do not overlap, when main() returns 0 the lastIP in
\* config.json is the address get_ip() returned in that run; and between runs,
\* unless the latest save_config() raised, the persisted lastIP is the baseline
\* (no edit_record() has returned True yet) or the content of the latest
\* edit_record() call that returned True.
C10_PersistedTracksAccepted ==
    /\ \A p \in Procs :
           (pc[p] = "returned" /\ retval[p] = <<0>>) =>
               (PersistedLastIP(file) = current_ip[p])
    /\ (BetweenRuns /\ ~saveFailed) =>
           (PersistedLastIP(file) = IF lastAccepted = None THEN baseline ELSE lastAccepted)

\* Two runs in a row each updated and saved; the file holds the second address.
C10_Witness ==
    /\ BetweenRuns
    /\ runs = 2
    /\ \A p \in Procs : retval[p] = <<0>>
    /\ ~saveFailed
    /\ baseline = <<>>
    /\ lastAccepted = <<"4", "4">>
    /\ lastWritten # NoDict
    /\ PersistedLastIP(file) = <<"4", "4">>

\* Every text config.json holds, and every text a run has read from it, is one
\* Parse decides: an object of strings, or a text json.load() rejects.
FileDecodable ==
    /\ Parse(file).kind # "unsupported"
    /\ \A p \in Procs : Parse(got[p]).kind # "unsupported"

====
